---------------------------- MODULE Spec2Model ----------------------------
(***************************************************************************)
(* jsonresume/mcp: the streaming-session bridge of the MCP server, its     *)
(* start-up and its tool handlers.                                         *)
(*                                                                         *)
(* Three revisions of the HTTP surface are present in the sources:         *)
(*   - the Hono server with a session map   (unnamed/part_000, 656-876),   *)
(*     specification Spec;                                                 *)
(*   - the earlier Hono server that awaits server.connect before it builds *)
(*     the stream                           (unnamed/part_000, 222-359),   *)
(*     specification SpecRev1;                                             *)
(*   - the Express server with one global transport (index.ts, 262-285),   *)
(*     specification SpecExpress.                                          *)
(* SpecCalls is the Hono server with the session map again, with the tool  *)
(* calls the Server has in flight for each session.  SpecTools is the      *)
(* process of unnamed/part_000 (377-893) from its first statement: service *)
(* initialization, mode selection, then the list-tools and call-tool       *)
(* handlers.  SpecIndex is the same for index.ts, with its SIGINT          *)
(* listener.  SpecClose is a connection of the Hono server with the        *)
(* session map up to the Server closing its transport, and the SIGINT      *)
(* listener of that revision.                                              *)
(* SpecConnect is the same server while server.connect settles, with the   *)
(* keep-alive timers firing (weak fairness), for the liveness property.    *)
(*                                                                         *)
(* The MCP SDK (Server, SSEServerTransport) is outside the repository.  It *)
(* appears here only as an environment: the promise of server.connect      *)
(* settles in a later step, the transport may call res.write and its own   *)
(* onerror/onmessage callbacks, and handlePostMessage returns or throws.   *)
(***************************************************************************)
EXTENDS Integers, Sequences, FiniteSets, TLC

VARIABLES
    phase,             \* per connection: position of the /sse handler
    sessionId,         \* per connection: the closure variable `sessionId`
    activeTransports,  \* Map<string, SSEServerTransport>
    ctrl,              \* per connection: state of the ReadableStream controller
    relay,             \* per connection: adapter.write wrapped by the stream relay
    stream,            \* per connection: chunks enqueued on the client's stream
    data,              \* per connection: honoResponseAdapter._data
    written,           \* per connection: chunks passed to the shim's write() (history)
    pingInterval,      \* per connection: the keep-alive interval is armed
    aborted,           \* per connection: the abort signal was delivered (history)
    handled,           \* per transport: session ids of the messages handed to it
    load,              \* connections opened, requests answered and events caused
    transport,         \* Express revision: the module-level `transport`
    last,              \* the last handler that ran and what it answered (history)
    inflight,          \* per transport: ids of the requests the Server is handling
    env,               \* process.env: the credentials that are set
    argv,              \* process.argv
    pc,                \* position of the module's top-level code
    exitCode,          \* the status passed to process.exit
    log,               \* what console.log / console.error printed
    started,           \* the transports connected and listeners opened
    gist,              \* the resume in the user's gists (upstream)
    calls,             \* collaborator calls made by the last tool call (history)
    result             \* how the last request handler completed

bridgeVars == <<phase, sessionId, activeTransports, ctrl, relay, stream, data, written,
                pingInterval, aborted, handled, load, transport, last>>

processVars == <<env, argv, pc, exitCode, log, started>>

toolVars == <<gist, calls, result>>

vars == <<bridgeVars, inflight, processVars, toolVars>>

-----------------------------------------------------------------------------
(* Bounds *)

MaxSessions == 2
MaxLoad == 3

Sessions == 1..MaxSessions

-----------------------------------------------------------------------------
(* Session identifiers.  transport.sessionId is an opaque string fixed when *)
(* the transport is constructed, distinct for distinct transports.          *)

IdNames == <<"sid-a", "sid-b", "sid-c", "sid-d">>

Undefined == ""
Bogus == "bogus"

TransportSessionId(s) == IdNames[s]

QueryIds == {Undefined, Bogus} \cup {TransportSessionId(s) : s \in Sessions}

NoTransport == 0

-----------------------------------------------------------------------------
(* The process: environment, command line, exit status.                    *)

(* The credentials, in the order in which the top-level code checks them.  *)
EnvNames == <<"GITHUB_TOKEN", "OPENAI_API_KEY", "GITHUB_USERNAME">>

AllEnv == {EnvNames[i] : i \in 1..Len(EnvNames)}

(* process.argv starts with the interpreter and the script.                *)
NodeArgv == <<"node", "index.js">>

SseArgv == NodeArgv \o <<"sse">>

Argvs ==
    {NodeArgv, SseArgv, NodeArgv \o <<"stdio">>, NodeArgv \o <<"sse", "--port=8080">>}

Includes(seq, x) == \E i \in 1..Len(seq) : seq[i] = x

NotExited == -1

(* new Error(`${name} environment variable is required`), as the catch    *)
(* prints it.                                                              *)
RequiredMessage(name) ==
    "Error initializing services: " \o name \o " environment variable is required"

InitializedMessage == "Services initialized successfully"

FatalMessage == "Fatal error running server"

RunningMessage(mode) == "JsonResume MCP Server running: " \o mode

-----------------------------------------------------------------------------
(* The tool registry (src/tools.ts; index.ts declares the same three).     *)

Tool(name, properties) ==
    [name |-> name, properties |-> properties, required |-> <<>>]

ANALYZE_CODEBASE_TOOL == Tool("github_analyze_codebase", {"directory"})

CHECK_RESUME_TOOL == Tool("github_check_resume", {})

ENHANCE_RESUME_WITH_PROJECT_TOOL == Tool("github_enhance_resume_with_project", {"directory"})

toolsWithHello ==
    <<ANALYZE_CODEBASE_TOOL, CHECK_RESUME_TOOL, ENHANCE_RESUME_WITH_PROJECT_TOOL,
      Tool("github_hello_tool", {"name"})>>

(* A registry with an entry the call-tool handler has no branch for. *)
toolsWithUnimplemented ==
    <<ANALYZE_CODEBASE_TOOL, CHECK_RESUME_TOOL, ENHANCE_RESUME_WITH_PROJECT_TOOL,
      Tool("github_update_resume", {})>>

tools == <<ANALYZE_CODEBASE_TOOL, CHECK_RESUME_TOOL, ENHANCE_RESUME_WITH_PROJECT_TOOL>>

(* tools.some(tool => tool.name === name) *)
ToolsSome(name) == \E i \in 1..Len(tools) : tools[i].name = name

HelloTool == "github_hello_tool"

(* Tool names a client may send. *)
RequestedNames ==
    {tools[i].name : i \in 1..Len(tools)} \cup {HelloTool, "no_such_tool"}

(* request.params.arguments: absent, {} or {directory: "/repo"}.           *)
NoArguments == [present |-> FALSE, directory |-> ""]

Arguments ==
    {NoArguments, [present |-> TRUE, directory |-> ""],
     [present |-> TRUE, directory |-> "/repo"]}

-----------------------------------------------------------------------------
(* JavaScript values as the handlers see them.                             *)

(* A thrown value: its .message property ("" when it has none or an empty  *)
(* one) and String(value).  Reading a property of undefined throws.        *)
NoThrow == [type |-> "none", message |-> "", text |-> ""]

JsError(m) ==
    [type |-> "Error", message |-> m, text |-> IF m = "" THEN "Error" ELSE m]

JsTypeError(m) == [type |-> "TypeError", message |-> m, text |-> m]

McpError(m) == [type |-> "McpError", message |-> m, text |-> m]

JsString(s) == [type |-> "string", message |-> "", text |-> s]

JsUndefined == [type |-> "undefined", message |-> "", text |-> "undefined"]

(* What an external collaborator may reject with. *)
Rejections == {JsError("upstream failed"), JsError(""), JsString("boom"), JsUndefined}

(* Reading property prop of undefined. *)
CannotRead(prop) ==
    JsTypeError("Cannot read properties of undefined (reading '" \o prop \o "')")

(* A property of an object literal: key, type of the value, the value's    *)
(* text, and for an object value the keys it has.                          *)
Field(key, type, v) == [key |-> key, type |-> type, v |-> v, keys |-> {}]

ObjectField(key, keys) == [key |-> key, type |-> "object", v |-> "", keys |-> keys]

(* JSON.stringify(value, null, 2) of an object: properties whose value is  *)
(* undefined are left out, null is kept.                                   *)
JsonStringify(fields) == SelectSeq(fields, LAMBDA f : f.type # "undefined")

(* A content block {type: "text", text}: the text is a string, or the JSON *)
(* text of an object (kept as its properties).                             *)
TextBlock(text) == [type |-> "text", text |-> text, json |-> <<>>]

JsonBlock(fields) == [type |-> "text", text |-> "", json |-> JsonStringify(fields)]

(* error.message || String(error) *)
MessageOrString(e) == IF e.message # "" THEN e.message ELSE e.text

(* How a request handler completed: it returned (isError, content, or the  *)
(* plain object `value`, or the catalogue), or its promise rejected with   *)
(* `thrown`.  failure: what was thrown while the request was handled       *)
(* (history).                                                              *)
NoResult ==
    [handler |-> "none", name |-> "", outcome |-> "none", isError |-> FALSE,
     content |-> <<>>, value |-> <<>>, catalogue |-> <<>>, thrown |-> NoThrow,
     failure |-> NoThrow]

Returned(handler, name) ==
    [NoResult EXCEPT !.handler = handler, !.name = name, !.outcome = "returns"]

Threw(handler, name, e) ==
    [NoResult EXCEPT !.handler = handler, !.name = name, !.outcome = "throws",
                     !.thrown = e, !.failure = e]

-----------------------------------------------------------------------------
(* Stream events, as the client reads them: <<kind, session id, number>>.  *)

EndpointEvent(id) == <<"endpoint", id, 0>>
ConnectedEvent == <<"connected", "", 0>>
PingEvent == <<"ping", "", 0>>
ChunkEvent(n) == <<"chunk", "", n>>
ResponseEvent(id) == <<"response", "", id>>
MessageEvent(id) == <<"message", "", id>>

(* Request bodies of POST /message: text that is not JSON, the JSON value  *)
(* null, or a JSON-RPC message with a method and an id (0: the message     *)
(* carries no id).                                                         *)

NoBody == [json |-> "invalid", method |-> "", id |-> 0]

Bodies ==
    {NoBody, [json |-> "null", method |-> "", id |-> 0]} \cup
    {[json |-> "object", method |-> "initialize", id |-> i] : i \in {0, 1}} \cup
    {[json |-> "object", method |-> "tools/call", id |-> 1]}

(* The ids that requests carry. *)
RequestIds == {b.id : b \in Bodies} \ {0}

(* What transport.handlePostMessage may do with a message it is handed:     *)
(* return, throw, call the onmessage handler that start(controller) set    *)
(* (the echo), or call the onmessage handler of the Server, which starts   *)
(* handling the request (dispatch).                                        *)
HandlePostOutcomes == {"returns", "throws", "onmessage"}

DispatchOutcomes == {"returns", "dispatch"}

-----------------------------------------------------------------------------
(* The record of the handler that ran last. *)

NoOp ==
    [op |-> "init", s |-> NoTransport, q |-> Undefined, body |-> NoBody,
     status |-> 0, ack |-> FALSE, to |-> NoTransport, wrote |-> FALSE,
     failed |-> FALSE, again |-> FALSE]

Ran(op, s) == [NoOp EXCEPT !.op = op, !.s = s]

-----------------------------------------------------------------------------
(* ReadableStream controller and Map primitives, as the handlers use them.  *)

CanEnqueue(c) == c = "readable"

ControllerError(c) == IF c = "readable" THEN "errored" ELSE c

(* A set that stores nothing. *)
MapSetDropped(m, k, v) == m

MapSet(m, k, v) == [x \in (DOMAIN m) \cup {k} |-> IF x = k THEN v ELSE m[x]]

MapDeleteAll(m, k) == [x \in {} |-> NoTransport]

MapDelete(m, k) == [x \in (DOMAIN m) \ {k} |-> m[x]]

MapHas(m, k) == k \in DOMAIN m

TornDown(c) == c \in {"closed", "errored"}

-----------------------------------------------------------------------------
InitBridge ==
    /\ phase = [s \in Sessions |-> "none"]
    /\ sessionId = [s \in Sessions |-> Undefined]
    /\ activeTransports = [x \in {} |-> NoTransport]
    /\ ctrl = [s \in Sessions |-> "unset"]
    /\ relay = [s \in Sessions |-> FALSE]
    /\ stream = [s \in Sessions |-> <<>>]
    /\ data = [s \in Sessions |-> <<>>]
    /\ written = [s \in Sessions |-> <<>>]
    /\ pingInterval = [s \in Sessions |-> FALSE]
    /\ aborted = [s \in Sessions |-> FALSE]
    /\ handled = [s \in Sessions |-> {}]
    /\ load = 0
    /\ transport = NoTransport
    /\ last = NoOp
    /\ inflight = [s \in Sessions |-> {}]

(* The HTTP server is running: the credentials were set and the command   *)
(* line selected the streaming mode.                                       *)
Init ==
    /\ InitBridge
    /\ env = AllEnv
    /\ argv = SseArgv
    /\ pc = "run"
    /\ exitCode = NotExited
    /\ log = <<>>
    /\ started = {"http"}
    /\ gist = "none"
    /\ calls = <<>>
    /\ result = NoResult

(* The load of a run: connections opened, POST requests answered, pings   *)
(* enqueued and chunks the transport wrote.  The guards of the actions     *)
(* that add to it stop at MaxLoad.                                         *)
MoreLoad == load < MaxLoad

TypeOK ==
    /\ phase \in [Sessions -> {"none", "connecting", "connected", "failed"}]
    /\ sessionId \in [Sessions -> {Undefined} \cup {TransportSessionId(s) : s \in Sessions}]
    /\ DOMAIN activeTransports \subseteq {TransportSessionId(s) : s \in Sessions}
    /\ \A k \in DOMAIN activeTransports : activeTransports[k] \in Sessions
    /\ ctrl \in [Sessions -> {"unset", "readable", "closed", "errored"}]
    /\ relay \in [Sessions -> BOOLEAN]
    /\ pingInterval \in [Sessions -> BOOLEAN]
    /\ aborted \in [Sessions -> BOOLEAN]
    /\ \A s \in Sessions : handled[s] \subseteq QueryIds
    /\ \A s \in Sessions : Len(data[s]) <= Len(written[s])
    /\ load \in 0..MaxLoad
    /\ transport \in Sessions \cup {NoTransport}
    /\ last.op \in {"init", "abort", "post", "end"}
    /\ inflight \in [Sessions -> SUBSET RequestIds]
    /\ env \subseteq AllEnv
    /\ argv \in Argvs
    /\ pc \in {"load", "init", "run", "closing", "exit"}
    /\ exitCode \in {NotExited, 0, 1}
    /\ started \subseteq {"stdio", "http", "proxy"}
    /\ gist \in {"none", "plain", "tagged"}
    /\ Len(calls) <= 6
    /\ result.outcome \in {"none", "returns", "throws"}

(* Connections are numbered in the order in which they are opened. *)
NextToOpen(s) ==
    /\ MoreLoad
    /\ phase[s] = "none"
    /\ \A t \in Sessions : t < s => phase[t] # "none"

-----------------------------------------------------------------------------
(* A relay that pushes the chunk to _data before it enqueues it.           *)
AdapterWriteDataFirst(s, ev) ==
    LET live == ~TornDown(ctrl[s])
        w == Append(written[s], <<ev, live>>)
    IN  IF relay[s]
        THEN IF CanEnqueue(ctrl[s])
             THEN [stream |-> Append(stream[s], ev), data |-> Append(data[s], ev),
                   written |-> w, threw |-> FALSE]
             ELSE [stream |-> stream[s], data |-> Append(data[s], ev),
                   written |-> w, threw |-> TRUE]
        ELSE [stream |-> stream[s], data |-> Append(data[s], ev),
              written |-> w, threw |-> FALSE]

(* The shim's write(), called with event ev on connection s.  With the     *)
(* stream relay installed the chunk is enqueued on the controller and then *)
(* pushed to _data; controller.enqueue throws on a stream that is not      *)
(* readable, before _data is touched.  Without the relay the chunk only    *)
(* reaches _data.  Yields the new <<stream, data, written>> of s and       *)
(* whether the call threw.                                                 *)
AdapterWrite(s, ev) ==
    LET live == ~TornDown(ctrl[s])
        w == Append(written[s], <<ev, live>>)
    IN  IF relay[s]
        THEN IF CanEnqueue(ctrl[s])
             THEN [stream |-> Append(stream[s], ev), data |-> Append(data[s], ev),
                   written |-> w, threw |-> FALSE]
             ELSE [stream |-> stream[s], data |-> data[s],
                   written |-> w, threw |-> TRUE]
        ELSE [stream |-> stream[s], data |-> Append(data[s], ev),
              written |-> w, threw |-> FALSE]

(* The transport (SDK) calls res.write on the shim: its own endpoint event *)
(* during start(), a serialized message in send().                         *)
TransportWrite(s) ==
    /\ phase[s] # "none"
    /\ MoreLoad
    /\ LET r == AdapterWrite(s, ChunkEvent(Len(written[s]) + 1))
       IN  /\ stream' = [stream EXCEPT ![s] = r.stream]
           /\ data' = [data EXCEPT ![s] = r.data]
           /\ written' = [written EXCEPT ![s] = r.written]
    /\ load' = load + 1
    /\ last' = NoOp
    /\ UNCHANGED <<phase, sessionId, activeTransports, ctrl, relay,
                   pingInterval, aborted, handled, transport>>
    /\ UNCHANGED <<inflight, processVars, toolVars>>

-----------------------------------------------------------------------------
(* GET /sse of the Hono server with the session map.                       *)

(* The handler up to `return new Response(...)`: start(controller) runs    *)
(* inside the ReadableStream constructor, installs the relay on            *)
(* adapter.write and the transport's handlers, calls server.connect        *)
(* (pending), arms the keep-alive interval and adds the abort listener.    *)
GetSse(s) ==
    /\ NextToOpen(s)
    /\ phase' = [phase EXCEPT ![s] = "connecting"]
    /\ ctrl' = [ctrl EXCEPT ![s] = "readable"]
    /\ relay' = [relay EXCEPT ![s] = TRUE]
    /\ pingInterval' = [pingInterval EXCEPT ![s] = TRUE]
    /\ load' = load + 1
    /\ last' = NoOp
    /\ UNCHANGED <<sessionId, activeTransports, stream, data, written,
                   aborted, handled, transport>>
    /\ UNCHANGED <<inflight, processVars, toolVars>>

(* server.connect(transport).then(...): the session id is read, the        *)
(* transport is stored, and the endpoint and connected events are          *)
(* enqueued.  On a stream that is not readable the first enqueue throws,   *)
(* after the map was written, and the .catch calls controller.error.       *)
ConnectResolved(s) ==
    /\ phase[s] = "connecting"
    /\ phase' = [phase EXCEPT ![s] = "connected"]
    /\ sessionId' = [sessionId EXCEPT ![s] = TransportSessionId(s)]
    /\ activeTransports' = MapSet(activeTransports, TransportSessionId(s), s)
    /\ IF CanEnqueue(ctrl[s])
       THEN /\ stream' = [stream EXCEPT ![s] =
                    @ \o <<EndpointEvent(TransportSessionId(s)), ConnectedEvent>>]
            /\ ctrl' = ctrl
       ELSE /\ stream' = stream
            /\ ctrl' = [ctrl EXCEPT ![s] = ControllerError(@)]
    /\ last' = NoOp
    /\ UNCHANGED <<relay, data, written, pingInterval, aborted, handled, load, transport>>
    /\ UNCHANGED <<inflight, processVars, toolVars>>

(* A .catch that only logs. *)
ConnectRejectedLogged(s) ==
    /\ phase[s] = "connecting"
    /\ phase' = [phase EXCEPT ![s] = "failed"]
    /\ last' = NoOp
    /\ UNCHANGED <<sessionId, activeTransports, ctrl, relay, stream, data, written,
                   pingInterval, aborted, handled, load, transport>>
    /\ UNCHANGED <<inflight, processVars, toolVars>>

(* server.connect(transport) rejects: .catch calls controller.error.       *)
ConnectRejected(s) ==
    /\ phase[s] = "connecting"
    /\ phase' = [phase EXCEPT ![s] = "failed"]
    /\ ctrl' = [ctrl EXCEPT ![s] = ControllerError(@)]
    /\ last' = NoOp
    /\ UNCHANGED <<sessionId, activeTransports, relay, stream, data, written,
                   pingInterval, aborted, handled, load, transport>>
    /\ UNCHANGED <<inflight, processVars, toolVars>>

(* The setInterval callback: enqueue a ping; if that throws, clear the     *)
(* interval.                                                               *)
PingTick(s) ==
    /\ pingInterval[s]
    /\ IF CanEnqueue(ctrl[s])
       THEN /\ MoreLoad
            /\ stream' = [stream EXCEPT ![s] = Append(@, PingEvent)]
            /\ load' = load + 1
            /\ pingInterval' = pingInterval
       ELSE /\ stream' = stream
            /\ load' = load
            /\ pingInterval' = [pingInterval EXCEPT ![s] = FALSE]
    /\ last' = NoOp
    /\ UNCHANGED <<phase, sessionId, activeTransports, ctrl, relay, data, written,
                   aborted, handled, transport>>
    /\ UNCHANGED <<inflight, processVars, toolVars>>

(* An onerror that errors the stream of every connection.                  *)
OnErrorAll(s) == [t \in Sessions |-> ControllerError(ctrl[t])]

(* transport.onerror as start(controller) installs it: controller.error.   *)
(* Erroring a stream that is no longer readable does nothing.              *)
OnError(s) == [ctrl EXCEPT ![s] = ControllerError(@)]

(* The transport reports an unrecoverable error through transport.onerror. *)
TransportError(s) ==
    /\ phase[s] # "none"
    /\ ctrl' = OnError(s)
    /\ last' = NoOp
    /\ UNCHANGED <<phase, sessionId, activeTransports, relay, stream, data, written,
                   pingInterval, aborted, handled, load, transport>>
    /\ UNCHANGED <<inflight, processVars, toolVars>>

(* The request's abort listener: clear the interval; when sessionId has    *)
(* been assigned, delete the map entry and call transport.onerror inside   *)
(* a try/catch.                                                            *)
Abort(s) ==
    /\ phase[s] # "none"
    /\ pingInterval' = [pingInterval EXCEPT ![s] = FALSE]
    /\ IF sessionId[s] # Undefined
       THEN /\ activeTransports' = MapDelete(activeTransports, sessionId[s])
            /\ ctrl' = OnError(s)
       ELSE /\ activeTransports' = activeTransports
            /\ ctrl' = ctrl
    /\ aborted' = [aborted EXCEPT ![s] = TRUE]
    /\ last' = [Ran("abort", s) EXCEPT !.again = aborted[s]]
    /\ UNCHANGED <<phase, sessionId, relay, stream, data, written, handled, load, transport>>
    /\ UNCHANGED <<inflight, processVars, toolVars>>

-----------------------------------------------------------------------------
(* POST /message of the Hono server with the session map.                  *)

(* The answer, in the order of the handler's checks: the sessionId query   *)
(* parameter, then c.req.json() inside the try, then the map lookup, then  *)
(* body.method (a TypeError on null), then the initialize branch, then     *)
(* transport.handlePostMessage; the catch answers 500.  ack: the body is   *)
(* {status: 'ok'}.                                                         *)
PostResponseLookupFirst(q, body, found, handlerThrew) ==
    IF q = Undefined THEN [status |-> 400, ack |-> FALSE]
    ELSE IF ~found THEN [status |-> 404, ack |-> FALSE]
    ELSE IF body.json = "invalid" THEN [status |-> 500, ack |-> FALSE]
    ELSE IF body.json = "null" THEN [status |-> 500, ack |-> FALSE]
    ELSE IF body.method = "initialize" THEN [status |-> 200, ack |-> TRUE]
    ELSE IF handlerThrew THEN [status |-> 500, ack |-> FALSE]
    ELSE [status |-> 200, ack |-> TRUE]

PostResponse(q, body, found, handlerThrew) ==
    IF q = Undefined THEN [status |-> 400, ack |-> FALSE]
    ELSE IF body.json = "invalid" THEN [status |-> 500, ack |-> FALSE]
    ELSE IF ~found THEN [status |-> 404, ack |-> FALSE]
    ELSE IF body.json = "null" THEN [status |-> 500, ack |-> FALSE]
    ELSE IF body.method = "initialize" THEN [status |-> 200, ack |-> TRUE]
    ELSE IF handlerThrew THEN [status |-> 500, ack |-> FALSE]
    ELSE [status |-> 200, ack |-> TRUE]

(* What the handler never assigns. *)
PostFrameDropsSession(q) ==
    /\ activeTransports' = MapDelete(activeTransports, q)
    /\ UNCHANGED <<phase, sessionId, ctrl, relay, pingInterval, aborted, transport,
                   processVars, toolVars>>

PostFrame(q) ==
    UNCHANGED <<phase, sessionId, activeTransports, ctrl, relay, pingInterval,
                aborted, transport, processVars, toolVars>>

PostMessage(q, body, hp) ==
    LET found == MapHas(activeTransports, q)
        t == IF found THEN activeTransports[q] ELSE NoTransport
        reaches == q # Undefined /\ body.json = "object" /\ found
        init == reaches /\ body.method = "initialize"
        fwd == reaches /\ ~init
    IN  /\ MoreLoad
        /\ load' = load + 1
        /\ PostFrame(q)
        /\ IF init
           THEN \* res.write(sseData) on transport['res'], inside try/catch
                /\ hp = "returns"
                /\ LET r == AdapterWrite(t, ResponseEvent(body.id))
                       a == PostResponse(q, body, found, FALSE)
                   IN  /\ stream' = [stream EXCEPT ![t] = r.stream]
                       /\ data' = [data EXCEPT ![t] = r.data]
                       /\ written' = [written EXCEPT ![t] = r.written]
                       /\ handled' = handled
                       /\ inflight' = inflight
                       /\ last' = [Ran("post", t) EXCEPT
                                      !.q = q, !.body = body, !.status = a.status,
                                      !.ack = a.ack, !.wrote = TRUE, !.failed = r.threw]
           ELSE IF fwd
           THEN \* await transport.handlePostMessage(c.req.raw, new Response(), body)
                LET echo == hp = "onmessage" /\ CanEnqueue(ctrl[t])
                    hthrew == hp = "throws" \/ (hp = "onmessage" /\ ~CanEnqueue(ctrl[t]))
                    a == PostResponse(q, body, found, hthrew)
                IN  /\ stream' = IF echo
                                 THEN [stream EXCEPT ![t] = Append(@, MessageEvent(body.id))]
                                 ELSE stream
                    /\ handled' = [handled EXCEPT ![t] = @ \cup {q}]
                    /\ inflight' = IF hp = "dispatch" /\ body.id # 0
                                   THEN [inflight EXCEPT ![t] = @ \cup {body.id}]
                                   ELSE inflight
                    /\ UNCHANGED <<data, written>>
                    /\ last' = [Ran("post", t) EXCEPT
                                   !.q = q, !.body = body, !.status = a.status,
                                   !.ack = a.ack, !.to = t, !.failed = hthrew]
           ELSE /\ hp = "returns"
                /\ UNCHANGED <<stream, data, written, handled, inflight>>
                /\ LET a == PostResponse(q, body, found, FALSE)
                   IN  last' = [Ran("post", t) EXCEPT
                                   !.q = q, !.body = body, !.status = a.status,
                                   !.ack = a.ack]

-----------------------------------------------------------------------------
Next ==
    \/ \E s \in Sessions : GetSse(s)
    \/ \E s \in Sessions : ConnectResolved(s)
    \/ \E s \in Sessions : ConnectRejected(s)
    \/ \E s \in Sessions : PingTick(s)
    \/ \E s \in Sessions : TransportError(s)
    \/ \E s \in Sessions : Abort(s)
    \/ \E s \in Sessions : TransportWrite(s)
    \/ \E q \in QueryIds, body \in Bodies, hp \in HandlePostOutcomes :
          PostMessage(q, body, hp)

Spec == Init /\ [][Next]_vars

-----------------------------------------------------------------------------
(* GET /sse of the earlier Hono server: server.connect is awaited before   *)
(* the stream exists; start(controller) then enqueues the connected event, *)
(* installs the relay on adapter.write and sets the transport's handlers.  *)
(* There is no session map, no keep-alive and no POST route.               *)

Rev1GetSse(s) ==
    /\ NextToOpen(s)
    /\ phase' = [phase EXCEPT ![s] = "connecting"]
    /\ load' = load + 1
    /\ last' = NoOp
    /\ UNCHANGED <<sessionId, activeTransports, ctrl, relay, stream, data, written,
                   pingInterval, aborted, handled, transport>>
    /\ UNCHANGED <<inflight, processVars, toolVars>>

Rev1Connected(s) ==
    /\ phase[s] = "connecting"
    /\ phase' = [phase EXCEPT ![s] = "connected"]
    /\ ctrl' = [ctrl EXCEPT ![s] = "readable"]
    /\ stream' = [stream EXCEPT ![s] = Append(@, ConnectedEvent)]
    /\ relay' = [relay EXCEPT ![s] = TRUE]
    /\ last' = NoOp
    /\ UNCHANGED <<sessionId, activeTransports, data, written, pingInterval,
                   aborted, handled, load, transport>>
    /\ UNCHANGED <<inflight, processVars, toolVars>>

(* await server.connect(transport) throws: the handler ends there.         *)
Rev1ConnectFailed(s) ==
    /\ phase[s] = "connecting"
    /\ phase' = [phase EXCEPT ![s] = "failed"]
    /\ last' = NoOp
    /\ UNCHANGED <<sessionId, activeTransports, ctrl, relay, stream, data, written,
                   pingInterval, aborted, handled, load, transport>>
    /\ UNCHANGED <<inflight, processVars, toolVars>>

(* transport.onmessage as start(controller) installs it.                   *)
Rev1OnMessage(s) ==
    /\ phase[s] = "connected"
    /\ CanEnqueue(ctrl[s])
    /\ MoreLoad
    /\ stream' = [stream EXCEPT ![s] = Append(@, MessageEvent(1))]
    /\ load' = load + 1
    /\ last' = NoOp
    /\ UNCHANGED <<phase, sessionId, activeTransports, ctrl, relay, data, written,
                   pingInterval, aborted, handled, transport>>
    /\ UNCHANGED <<inflight, processVars, toolVars>>

(* transport.onerror exists only once start(controller) has run.           *)
Rev1TransportError(s) ==
    /\ phase[s] = "connected"
    /\ ctrl' = OnError(s)
    /\ last' = NoOp
    /\ UNCHANGED <<phase, sessionId, activeTransports, relay, stream, data, written,
                   pingInterval, aborted, handled, load, transport>>
    /\ UNCHANGED <<inflight, processVars, toolVars>>

(* The abort listener only logs.                                           *)
Rev1Abort(s) ==
    /\ phase[s] = "connected"
    /\ aborted' = [aborted EXCEPT ![s] = TRUE]
    /\ last' = [Ran("abort", s) EXCEPT !.again = aborted[s]]
    /\ UNCHANGED <<phase, sessionId, activeTransports, ctrl, relay, stream, data,
                   written, pingInterval, handled, load, transport>>
    /\ UNCHANGED <<inflight, processVars, toolVars>>

NextRev1 ==
    \/ \E s \in Sessions : Rev1GetSse(s)
    \/ \E s \in Sessions : Rev1Connected(s)
    \/ \E s \in Sessions : Rev1ConnectFailed(s)
    \/ \E s \in Sessions : Rev1OnMessage(s)
    \/ \E s \in Sessions : Rev1TransportError(s)
    \/ \E s \in Sessions : Rev1Abort(s)
    \/ \E s \in Sessions : TransportWrite(s)

SpecRev1 == Init /\ [][NextRev1]_vars

-----------------------------------------------------------------------------
(* The Express server (index.ts): one module-level `transport`, assigned   *)
(* by every GET /sse and used by every POST /messages.                     *)

ExpressGetSse(s) ==
    /\ NextToOpen(s)
    /\ transport' = s
    /\ phase' = [phase EXCEPT ![s] = "connecting"]
    /\ load' = load + 1
    /\ last' = NoOp
    /\ UNCHANGED <<sessionId, activeTransports, ctrl, relay, stream, data, written,
                   pingInterval, aborted, handled>>
    /\ UNCHANGED <<inflight, processVars, toolVars>>

(* await mcpServer.connect(transport) settles; the handler does nothing    *)
(* after it.                                                               *)
ExpressConnectSettled(s, ok) ==
    /\ phase[s] = "connecting"
    /\ phase' = [phase EXCEPT ![s] = IF ok THEN "connected" ELSE "failed"]
    /\ last' = NoOp
    /\ UNCHANGED <<sessionId, activeTransports, ctrl, relay, stream, data, written,
                   pingInterval, aborted, handled, load, transport>>
    /\ UNCHANGED <<inflight, processVars, toolVars>>

(* POST /messages?sessionId=q: 400 without a transport; otherwise the      *)
(* request goes to the module-level transport and 200 is sent when         *)
(* handlePostMessage returns.  The query parameter is not read.            *)
ExpressPostMessages(q, hp) ==
    /\ MoreLoad
    /\ load' = load + 1
    /\ IF transport = NoTransport
       THEN /\ hp = "returns"
            /\ handled' = handled
            /\ last' = [Ran("post", NoTransport) EXCEPT !.q = q, !.status = 400]
       ELSE /\ handled' = [handled EXCEPT ![transport] = @ \cup {q}]
            /\ last' = [Ran("post", transport) EXCEPT
                           !.q = q, !.to = transport,
                           !.status = IF hp = "returns" THEN 200 ELSE 0,
                           !.failed = hp = "throws"]
    /\ UNCHANGED <<phase, sessionId, activeTransports, ctrl, relay, stream, data,
                   written, pingInterval, aborted, transport>>
    /\ UNCHANGED <<inflight, processVars, toolVars>>

NextExpress ==
    \/ \E s \in Sessions : ExpressGetSse(s)
    \/ \E s \in Sessions, ok \in BOOLEAN : ExpressConnectSettled(s, ok)
    \/ \E q \in QueryIds, hp \in {"returns", "throws"} : ExpressPostMessages(q, hp)

SpecExpress == Init /\ [][NextExpress]_vars

-----------------------------------------------------------------------------
(* Tool calls in flight on the Hono server with the session map.  The      *)
(* Server answers a request it was handed by calling transport.send, which *)
(* writes the response through the shim's write(); a send that throws is   *)
(* handed to server.onerror.  The keep-alive timer of every open           *)
(* connection keeps firing while calls are in flight.                      *)

(* server.onerror: console.log(error), nothing else.                       *)
ServerOnError == UNCHANGED <<pc, exitCode, started>>

(* The handler of request id on connection s settles (result or failure)   *)
(* and the Server sends the response.                                      *)
CallSettles(s, id) ==
    /\ id \in inflight[s]
    /\ inflight' = [inflight EXCEPT ![s] = @ \ {id}]
    /\ LET r == AdapterWrite(s, ResponseEvent(id))
       IN  /\ stream' = [stream EXCEPT ![s] = r.stream]
           /\ data' = [data EXCEPT ![s] = r.data]
           /\ written' = [written EXCEPT ![s] = r.written]
           /\ IF r.threw THEN ServerOnError ELSE UNCHANGED <<pc, exitCode, started>>
    /\ last' = NoOp
    /\ UNCHANGED <<phase, sessionId, activeTransports, ctrl, relay, pingInterval,
                   aborted, handled, load, transport>>
    /\ UNCHANGED <<env, argv, log, toolVars>>

NextCalls ==
    \/ \E s \in Sessions : GetSse(s)
    \/ \E s \in Sessions : ConnectResolved(s)
    \/ \E s \in Sessions : PingTick(s)
    \/ \E s \in Sessions : TransportError(s)
    \/ \E s \in Sessions : Abort(s)
    \/ \E q \in QueryIds, body \in Bodies, hp \in DispatchOutcomes :
          PostMessage(q, body, hp)
    \/ \E s \in Sessions, id \in RequestIds : CallSettles(s, id)

SpecCalls == Init /\ [][NextCalls]_vars

-----------------------------------------------------------------------------
(* A connection of the Hono server with the session map from GET /sse to   *)
(* the Server closing its transport, without POST /message.                *)

(* The transport calls end() on the shim (SSEServerTransport.close, when   *)
(* the Server closes the connection): the shim logs and returns itself.    *)
(* The controller, the interval and the session map are not touched.       *)
TransportEnd(s) ==
    /\ phase[s] # "none"
    /\ last' = Ran("end", s)
    /\ UNCHANGED <<phase, sessionId, activeTransports, ctrl, relay, stream, data, written,
                   pingInterval, aborted, handled, load, transport>>
    /\ UNCHANGED <<inflight, processVars, toolVars>>

(* process.on("SIGINT"): the handler calls server.close() and awaits it.    *)
(* Server.close is the SDK's; its promise settles in a later step.         *)
SigintExitsAtOnce ==
    /\ pc = "run"
    /\ pc' = "exit"
    /\ exitCode' = 0
    /\ UNCHANGED <<env, argv, log, started>>
    /\ UNCHANGED <<bridgeVars, inflight, toolVars>>

Sigint ==
    /\ pc = "run"
    /\ pc' = "closing"
    /\ UNCHANGED <<env, argv, exitCode, log, started>>
    /\ UNCHANGED <<bridgeVars, inflight, toolVars>>

(* What the await of server.close() may end in: the promise resolves, or   *)
(* it rejects and the rejection of the async listener is unhandled, which  *)
(* ends the process with status 1 or only prints a warning, depending on   *)
(* the runtime.                                                            *)
CloseOutcomes == {"resolved", "crash", "warn"}

(* The rest of the SIGINT listener, given the listeners it closes itself   *)
(* after the await.  A resolved close has closed the transport the Server  *)
(* was connected to.                                                       *)
AfterClose(out, listeners) ==
    /\ pc = "closing"
    /\ IF out = "resolved"
       THEN /\ started' = started \ ({"stdio"} \cup listeners)
            /\ exitCode' = 0
            /\ pc' = "exit"
       ELSE IF out = "crash"
       THEN /\ started' = started
            /\ exitCode' = 1
            /\ pc' = "exit"
       ELSE /\ started' = started
            /\ exitCode' = exitCode
            /\ pc' = "run"
    /\ UNCHANGED <<env, argv, log>>
    /\ UNCHANGED <<bridgeVars, inflight, toolVars>>

(* unnamed/part_000: await server.close(); process.exit(0).                *)
CloseSettled(out) == AfterClose(out, {})

(* index.ts: await mcpServer.close(); if (expressServer)                   *)
(* expressServer.close(); process.exit(0).                                 *)
IndexCloseSettled(out) == AfterClose(out, {"http"})

NextClose ==
    \/ \E s \in Sessions : GetSse(s)
    \/ \E s \in Sessions : ConnectResolved(s)
    \/ \E s \in Sessions : PingTick(s)
    \/ \E s \in Sessions : TransportError(s)
    \/ \E s \in Sessions : Abort(s)
    \/ \E s \in Sessions : TransportWrite(s)
    \/ \E s \in Sessions : TransportEnd(s)
    \/ Sigint
    \/ \E out \in CloseOutcomes : CloseSettled(out)

SpecClose == Init /\ [][NextClose]_vars

-----------------------------------------------------------------------------
(* The connections of the Hono server with the session map while           *)
(* server.connect settles, without POST /message.  setInterval keeps       *)
(* calling the keep-alive callback of a connection until clearInterval:    *)
(* an armed timer whose tick can run does run.                             *)
NextConnect ==
    \/ \E s \in Sessions : GetSse(s)
    \/ \E s \in Sessions : ConnectResolved(s)
    \/ \E s \in Sessions : ConnectRejected(s)
    \/ \E s \in Sessions : PingTick(s)
    \/ \E s \in Sessions : TransportError(s)
    \/ \E s \in Sessions : Abort(s)
    \/ \E s \in Sessions : TransportWrite(s)

TimersFire == \A s \in Sessions : WF_vars(PingTick(s))

SpecConnect == Init /\ [][NextConnect]_vars /\ TimersFire

-----------------------------------------------------------------------------
(* The tool functions.  The external collaborators (GitHubService,         *)
(* CodebaseAnalyzer, ResumeEnhancer) are an environment: g is the resume   *)
(* upstream, k the position of the collaborator call that rejects (0: none *)
(* does), e the value it rejects with, er what the enhancer returns.       *)
(* Each function yields the collaborator calls it made, the resume         *)
(* upstream afterwards, and the object it returned or the value it threw.  *)

(* Upstream: no resume, a resume, a resume that carries _gistId.           *)
GistStates == {"none", "plain", "tagged"}

ResumeOf(g) == IF g = "tagged" THEN {"basics", "_gistId"} ELSE {"basics"}

Cwd == "cwd"

MaxSteps == 6

EnhancerResults ==
    {[resumeLink |-> "https://gist.github.com/resume", userMessage |-> "string"],
     [resumeLink |-> "", userMessage |-> "undefined"]}

RegistryUrl == "https://registry.jsonresume.org/GITHUB_USERNAME"

Call(fn, arg) == [fn |-> fn, arg |-> arg]

Completed(cs, g, v) ==
    [calls |-> cs, gist |-> g, threw |-> FALSE, thrown |-> NoThrow, value |-> v]

Rejected(cs, g, e) ==
    [calls |-> cs, gist |-> g, threw |-> TRUE, thrown |-> e, value |-> <<>>]

(* The calls that write upstream. *)
Writes == {"createSampleResume", "updateResume"}

(* The resume upstream after the collaborator calls cs have completed.     *)
GistAfter(g, cs) ==
    IF \E i \in 1..Len(cs) : cs[i].fn = "createSampleResume" THEN "tagged" ELSE g

doHello(name) == <<Field("message", "string", "Hello, " \o name \o "!")>>

(* directory ? new CodebaseAnalyzer(directory) : codebaseAnalyzer          *)
Analyzer(directory) == IF directory # "" THEN directory ELSE Cwd

analyzeCodebase(directory, g, k, e) ==
    LET cs == <<Call("analyze", Analyzer(directory))>>
    IN  IF k = 1
        THEN Rejected(cs, g, e)
        ELSE Completed(cs, g,
                 <<Field("message", "string", "Codebase analysis completed successfully"),
                   ObjectField("analysis", {"repoName", "summary"}),
                   Field("summary", "string", "summary")>>)

checkResumeKeepsGistId(g, k, e) ==
    LET cs == <<Call("getResumeFromGists", "")>>
    IN  IF k = 1
        THEN Rejected(cs, g, e)
        ELSE IF g = "none"
        THEN Completed(cs, g,
                 <<Field("message", "string", "No resume found"),
                   Field("exists", "boolean", "false"),
                   Field("resumeUrl", "null", "null")>>)
        ELSE Completed(cs, g,
                 <<Field("message", "string", "Resume found"),
                   Field("exists", "boolean", "true"),
                   Field("resumeUrl", "string", RegistryUrl),
                   ObjectField("resume", ResumeOf(g))>>)

checkResume(g, k, e) ==
    LET cs == <<Call("getResumeFromGists", "")>>
    IN  IF k = 1
        THEN Rejected(cs, g, e)
        ELSE IF g = "none"
        THEN Completed(cs, g,
                 <<Field("message", "string", "No resume found"),
                   Field("exists", "boolean", "false"),
                   Field("resumeUrl", "null", "null")>>)
        ELSE Completed(cs, g,
                 <<Field("message", "string", "Resume found"),
                   Field("exists", "boolean", "true"),
                   Field("resumeUrl", "string", RegistryUrl),
                   ObjectField("resume", ResumeOf(g) \ {"_gistId"})>>)

(* The resume is updated upstream before it has been enhanced. *)
enhanceUpdatesFirst(directory, g, k, e, er) ==
    LET plan == <<Call("getResumeFromGists", "")>> \o
                (IF g = "none"
                 THEN <<Call("getUserProfile", ""), Call("createSampleResume", "")>>
                 ELSE <<>>) \o
                <<Call("analyze", Analyzer(directory)),
                  Call("updateResume", ""),
                  Call("enhanceWithCurrentProject", "")>>
    IN  IF k \in 1..Len(plan)
        THEN Rejected(SubSeq(plan, 1, k), GistAfter(g, SubSeq(plan, 1, k - 1)), e)
        ELSE Completed(plan, GistAfter(g, plan), <<>>)

enhanceResumeWithProject(directory, g, k, e, er) ==
    LET plan == <<Call("getResumeFromGists", "")>> \o
                (IF g = "none"
                 THEN <<Call("getUserProfile", ""), Call("createSampleResume", "")>>
                 ELSE <<>>) \o
                <<Call("analyze", Analyzer(directory)),
                  Call("enhanceWithCurrentProject", ""),
                  Call("updateResume", "")>>
    IN  IF k \in 1..Len(plan)
        THEN Rejected(SubSeq(plan, 1, k), GistAfter(g, SubSeq(plan, 1, k - 1)), e)
        ELSE Completed(plan, GistAfter(g, plan),
                 <<Field("message", "string",
                         "Resume enhanced with current project successfully"),
                   ObjectField("changes", {}),
                   Field("summary", "string", "summary"),
                   Field("userMessage", er.userMessage, "userMessage"),
                   Field("resumeUrl", "string",
                         IF er.resumeLink # "" THEN er.resumeLink ELSE RegistryUrl),
                   Field("projectName", "string", "repoName"),
                   Field("warning", "string", "warning")>>)

-----------------------------------------------------------------------------
(* The request handlers of unnamed/part_000 (449-451, 562-639).            *)

(* What a handler leaves behind: its completion, the collaborator calls    *)
(* made and the resume upstream.                                           *)
Handled(res, cs, g) == [result |-> res, calls |-> cs, gist |-> g]

(* input.directory / input.name on request.params.arguments: a TypeError   *)
(* when the request carries no arguments.                                  *)
ReadArgument(args, prop, g, run) ==
    IF args.present THEN run ELSE Rejected(<<>>, g, CannotRead(prop))

(* The catch of the call-tool handler: error.message || String(error).     *)
(* Reading .message of undefined throws inside the catch.                  *)
CatchToolError(name, e) ==
    IF e.type = "undefined"
    THEN [Threw("tools/call", name, CannotRead("message")) EXCEPT !.failure = e]
    ELSE [Returned("tools/call", name) EXCEPT
             !.isError = TRUE,
             !.content = <<TextBlock("Error executing tool: " \o MessageOrString(e))>>,
             !.failure = e]

(* A branch of the handler: await the tool, wrap its object as JSON text.  *)
ToolBranch(name, run) ==
    Handled(IF run.threw
            THEN CatchToolError(name, run.thrown)
            ELSE [Returned("tools/call", name) EXCEPT
                     !.content = <<JsonBlock(run.value)>>],
            run.calls, run.gist)

CallToolHandler(name, args, g, k, e, er) ==
    IF ~ToolsSome(name)
    THEN Handled([Returned("tools/call", name) EXCEPT
                     !.isError = TRUE,
                     !.content = <<TextBlock("Error: Unknown tool '" \o name \o "'")>>],
                 <<>>, g)
    ELSE IF name = HelloTool
    THEN IF args.present
         THEN Handled([Returned("tools/call", name) EXCEPT
                          !.content = <<TextBlock("Hello, undefined!")>>], <<>>, g)
         ELSE Handled(CatchToolError(name, CannotRead("name")), <<>>, g)
    ELSE IF name = ANALYZE_CODEBASE_TOOL.name
    THEN ToolBranch(name, ReadArgument(args, "directory", g,
                              analyzeCodebase(args.directory, g, k, e)))
    ELSE IF name = CHECK_RESUME_TOOL.name
    THEN ToolBranch(name, checkResume(g, k, e))
    ELSE IF name = ENHANCE_RESUME_WITH_PROJECT_TOOL.name
    THEN ToolBranch(name, ReadArgument(args, "directory", g,
                              enhanceResumeWithProject(args.directory, g, k, e, er)))
    ELSE Handled([Returned("tools/call", name) EXCEPT
                     !.isError = TRUE,
                     !.content = <<TextBlock("Error: Tool '" \o name \o
                                             "' implementation not found")>>],
                 <<>>, g)

(* The call-tool handler of index.ts (231-250) and of the first revision   *)
(* in unnamed/part_000 (186-205): no try/catch, the tool's object is       *)
(* returned as it is, an unknown name throws McpError.                     *)
PlainBranch(name, run) ==
    Handled(IF run.threw
            THEN Threw("tools/call", name, run.thrown)
            ELSE [Returned("tools/call", name) EXCEPT !.value = run.value],
            run.calls, run.gist)

IndexCallToolHandler(name, args, g, k, e, er) ==
    IF name = HelloTool
    THEN PlainBranch(name, ReadArgument(args, "name", g,
                               Completed(<<>>, g, doHello("undefined"))))
    ELSE IF name = "github_analyze_codebase"
    THEN PlainBranch(name, ReadArgument(args, "directory", g,
                               analyzeCodebase(args.directory, g, k, e)))
    ELSE IF name = "github_check_resume"
    THEN PlainBranch(name, checkResume(g, k, e))
    ELSE IF name = "github_enhance_resume_with_project"
    THEN PlainBranch(name, ReadArgument(args, "directory", g,
                               enhanceResumeWithProject(args.directory, g, k, e, er)))
    ELSE Handled(Threw("tools/call", name, McpError("Unknown tool: " \o name)), <<>>, g)

-----------------------------------------------------------------------------
(* The process of unnamed/part_000 (377-893) from its first statement.     *)

InitTools ==
    /\ InitBridge
    /\ env \in SUBSET AllEnv
    /\ argv \in Argvs
    /\ pc = "load"
    /\ exitCode = NotExited
    /\ log = <<>>
    /\ started = {}
    /\ gist \in GistStates
    /\ calls = <<>>
    /\ result = NoResult

(* The first credential, in the order of the checks, that is not set       *)
(* (0: all are set).                                                       *)
FirstMissing ==
    IF \E i \in 1..Len(EnvNames) : EnvNames[i] \notin env
    THEN CHOOSE i \in 1..Len(EnvNames) :
             /\ EnvNames[i] \notin env
             /\ \A j \in 1..(i - 1) : EnvNames[j] \in env
    ELSE 0

(* The checks without the one for GITHUB_USERNAME. *)
InitializeServicesTwoChecks ==
    /\ pc = "load"
    /\ IF FirstMissing \in {1, 2}
       THEN /\ log' = Append(log, RequiredMessage(EnvNames[FirstMissing]))
            /\ exitCode' = 1
            /\ pc' = "exit"
       ELSE /\ log' = Append(log, InitializedMessage)
            /\ exitCode' = exitCode
            /\ pc' = "init"
    /\ UNCHANGED <<env, argv, started>>
    /\ UNCHANGED <<bridgeVars, inflight, toolVars>>

(* The top-level try/catch: the three checks throw, the catch prints the   *)
(* error and calls process.exit(1).                                        *)
InitializeServices ==
    /\ pc = "load"
    /\ IF FirstMissing # 0
       THEN /\ log' = Append(log, RequiredMessage(EnvNames[FirstMissing]))
            /\ exitCode' = 1
            /\ pc' = "exit"
       ELSE /\ log' = Append(log, InitializedMessage)
            /\ exitCode' = exitCode
            /\ pc' = "init"
    /\ UNCHANGED <<env, argv, started>>
    /\ UNCHANGED <<bridgeVars, inflight, toolVars>>

(* args.includes('stdio') on process.argv.slice(2) *)
shouldRunStdio == Includes(SubSeq(argv, 3, Len(argv)), "stdio")

(* A mode was started, or starting it failed: the .catch prints the error  *)
(* and calls process.exit(1).                                              *)
ModeStarted(ok, mode, listeners) ==
    IF ok
    THEN /\ started' = started \cup listeners
         /\ log' = Append(log, RunningMessage(mode))
         /\ exitCode' = exitCode
         /\ pc' = "run"
    ELSE /\ started' = started
         /\ log' = Append(log, FatalMessage)
         /\ exitCode' = 1
         /\ pc' = "exit"

(* Mode selection at the end of the module: runStdioServer connects a      *)
(* StdioServerTransport, runHttpServer opens the listener.                 *)
SelectMode(ok) ==
    /\ pc = "init"
    /\ IF shouldRunStdio
       THEN ModeStarted(ok, "stdio", {"stdio"})
       ELSE ModeStarted(ok, "http", {"http"})
    /\ UNCHANGED <<env, argv>>
    /\ UNCHANGED <<bridgeVars, inflight, toolVars>>

(* The list-tools handler: async () => ({tools}).                          *)
ListTools ==
    /\ pc = "run"
    /\ result' = [Returned("tools/list", "") EXCEPT !.catalogue = tools]
    /\ UNCHANGED <<gist, calls, bridgeVars, inflight, processVars>>

CallTool(name, args, k, e, er) ==
    /\ pc = "run"
    /\ LET h == CallToolHandler(name, args, gist, k, e, er)
       IN  /\ result' = h.result
           /\ calls' = h.calls
           /\ gist' = h.gist
    /\ UNCHANGED <<bridgeVars, inflight, processVars>>

NextTools ==
    \/ InitializeServices
    \/ \E ok \in BOOLEAN : SelectMode(ok)
    \/ ListTools
    \/ \E name \in RequestedNames, args \in Arguments, k \in 0..MaxSteps,
          e \in Rejections, er \in EnhancerResults :
          CallTool(name, args, k, e, er)

SpecTools == InitTools /\ [][NextTools]_vars

-----------------------------------------------------------------------------
(* The process of index.ts.                                                *)

(* process.argv.includes('sse') *)
useSSE == Includes(argv, "sse")

(* runServer: with the flag, the Express listener and the Hono proxy;      *)
(* otherwise a StdioServerTransport is connected.                          *)
RunServer(ok) ==
    /\ pc = "init"
    /\ IF useSSE
       THEN ModeStarted(ok, "http", {"http", "proxy"})
       ELSE ModeStarted(ok, "stdio", {"stdio"})
    /\ UNCHANGED <<env, argv>>
    /\ UNCHANGED <<bridgeVars, inflight, toolVars>>

IndexCallTool(name, args, k, e, er) ==
    /\ pc = "run"
    /\ LET h == IndexCallToolHandler(name, args, gist, k, e, er)
       IN  /\ result' = h.result
           /\ calls' = h.calls
           /\ gist' = h.gist
    /\ UNCHANGED <<bridgeVars, inflight, processVars>>

NextIndex ==
    \/ InitializeServices
    \/ \E ok \in BOOLEAN : RunServer(ok)
    \/ ListTools
    \/ \E name \in RequestedNames, args \in Arguments, k \in 0..MaxSteps,
          e \in Rejections, er \in EnhancerResults :
          IndexCallTool(name, args, k, e, er)
    \/ Sigint
    \/ \E out \in CloseOutcomes : IndexCloseSettled(out)

SpecIndex == InitTools /\ [][NextIndex]_vars

-----------------------------------------------------------------------------
(* Properties *)

Registered(s) == MapHas(activeTransports, TransportSessionId(s))

SessionState ==
    <<phase, sessionId, activeTransports, ctrl, relay, stream, data, written,
      pingInterval, aborted, handled>>

(* A teardown trigger of connection s: the abort listener or transport.onerror. *)
TeardownStep(s) == Abort(s) \/ TransportError(s)

(* C1: once server.connect has resolved and the client's abort signal has  *)
(* been delivered, in either order, the session id is absent from          *)
(* activeTransports and a POST /message carrying it is answered 404.       *)
C1_TornDownIdNeverMatched ==
    \A s \in Sessions :
        (aborted[s] /\ phase[s] = "connected") =>
            /\ ~Registered(s)
            /\ (last.op = "post" /\ last.q = TransportSessionId(s) /\ last.body.json # "invalid")
                   => last.status = 404

(* C2: either trigger, client abort or transport error, tears a registered *)
(* session down: the keep-alive timer is stopped, the entry leaves the     *)
(* session map and the stream's consumers are notified.                    *)
C2_TeardownOnEitherTrigger ==
    [][\A s \in Sessions :
          (TeardownStep(s) /\ Registered(s)) =>
              /\ ~pingInterval'[s]
              /\ ~MapHas(activeTransports', TransportSessionId(s))
              /\ TornDown(ctrl'[s])]_vars

(* The chunks of the shim's write() on the client's stream, and the chunks *)
(* passed to write() before the stream was torn down.                      *)
Delivered(s) == SelectSeq(stream[s], LAMBDA e : e[1] \in {"chunk", "response"})

WrittenLive(s) ==
    LET w == SelectSeq(written[s], LAMBDA x : x[2])
    IN  [i \in 1..Len(w) |-> w[i][1]]

(* C3: every chunk passed to the shim's write() before stream teardown is  *)
(* on the client's stream exactly once and in write order, whenever in the *)
(* connection's life it was written.                                       *)
C3_WritesDeliveredInOrder ==
    \A s \in Sessions : Delivered(s) = WrittenLive(s)

(* C4: on every stream the connected event is preceded by the endpoint     *)
(* event that carries this session's id, and a ping is preceded by both.   *)
C4_EndpointConnectedBeforePing ==
    \A s \in Sessions : \A i \in 1..Len(stream[s]) :
        /\ stream[s][i] = ConnectedEvent =>
               \E j \in 1..(i - 1) :
                   stream[s][j] = EndpointEvent(TransportSessionId(s))
        /\ stream[s][i] = PingEvent =>
               \E j \in 1..(i - 1) : stream[s][j] = ConnectedEvent

(* C5: after either teardown trigger the interval timer of the connection  *)
(* is no longer armed, and no ping is enqueued on a torn-down connection.  *)
C5_PingsCeaseAtTeardown ==
    [][\A s \in Sessions :
          /\ TeardownStep(s) => ~pingInterval'[s]
          /\ (aborted[s] \/ TornDown(ctrl[s])) =>
                 stream'[s] # Append(stream[s], PingEvent)]_vars

C7_FailedWriteTearsDown ==
    (last.op = "post" /\ last.wrote /\ last.failed) =>
        /\ ~MapHas(activeTransports, last.q)
        /\ ~pingInterval[last.s]

(* C8 as claimed: 400 without a sessionId, 404 for an id that is not in    *)
(* the session map, 200 with the acknowledgment otherwise, whatever the    *)
(* body.                                                                   *)
C8_StatusFromSessionIdAlone ==
    last.op = "post" =>
        /\ last.status = (IF last.q = Undefined THEN 400
                          ELSE IF ~MapHas(activeTransports, last.q) THEN 404
                          ELSE 200)
        /\ last.ack = (last.status = 200)

(* C8 amended: 400 without a sessionId; otherwise 500 for a body that is   *)
(* not JSON, whether or not the session exists; otherwise 404 for an id    *)
(* that is not in the map; otherwise 500 when processing the message       *)
(* throws (a null body, or the transport's handlePostMessage throwing on a *)
(* message other than initialize); otherwise 200 with the acknowledgment.  *)
C8_StatusWithFailures ==
    last.op = "post" =>
        LET found == MapHas(activeTransports, last.q)
            parsed == last.q # Undefined /\ last.body.json # "invalid"
        IN  /\ last.q = Undefined => last.status = 400
            /\ (last.q # Undefined /\ last.body.json = "invalid") => last.status = 500
            /\ (parsed /\ ~found) => last.status = 404
            /\ (parsed /\ found /\ last.body.json = "null") => last.status = 500
            /\ (parsed /\ found /\ last.body.method = "initialize") => last.status = 200
            /\ (parsed /\ found /\ last.body.method = "tools/call") =>
                   last.status = (IF last.failed THEN 500 ELSE 200)
            /\ last.ack = (last.status = 200)

(* A body that is not JSON, sent to an id that is not in the map, was      *)
(* answered 500.                                                           *)
C8_Witness ==
    /\ last.op = "post"
    /\ last.q = Bogus
    /\ last.body.json = "invalid"
    /\ last.status = 500
    /\ DOMAIN activeTransports # {}

(* C9: no POST /message changes the session map, whatever it answers, and  *)
(* one that is answered 404 changes no session's state.                    *)
C9_PostLeavesMapAlone ==
    [][(last'.op = "post" /\ load' = load + 1) =>
          /\ activeTransports' = activeTransports
          /\ last'.status = 404 => SessionState' = SessionState]_vars

(* A POST with an unknown id was answered 404 while a session was          *)
(* registered.                                                             *)
C9_Witness ==
    /\ last.op = "post"
    /\ last.status = 404
    /\ DOMAIN activeTransports # {}

(* C10: a message addressed to session id s is handed only to the          *)
(* transport of s, never to the transport of another open connection.      *)
C10_HandedOnlyToOwnTransport ==
    \A t \in Sessions : \A u \in Sessions :
        TransportSessionId(u) \in handled[t] => u = t

-----------------------------------------------------------------------------
(* Properties of the request handlers and of start-up *)

(* The last request was a tool call that named tool n. *)
CalledTool(n) == result.handler = "tools/call" /\ result.name = n

(* C11: a call that names a tool that is not in the registry completes by  *)
(* returning an error result (isError, one text block that names the       *)
(* tool); it does not throw, calls no collaborator, and the process keeps  *)
(* running.                                                                *)
C11_UnknownToolIsErrorResult ==
    (result.handler = "tools/call" /\ ~ToolsSome(result.name)) =>
        /\ result.outcome = "returns"
        /\ result.isError
        /\ result.content = <<TextBlock("Error: Unknown tool '" \o result.name \o "'")>>
        /\ calls = <<>>
        /\ pc = "run"

(* C12: every tool call completes by returning; whatever was thrown while  *)
(* it was handled (a collaborator's rejection, the TypeError of reading a  *)
(* property of absent arguments, a value that is not an Error or has an    *)
(* empty message) comes back as an isError result whose one text block     *)
(* carries the failure's message.                                          *)
C12_FailuresBecomeErrorResults ==
    result.handler = "tools/call" =>
        /\ result.outcome = "returns"
        /\ result.failure # NoThrow =>
               /\ result.isError
               /\ result.content =
                      <<TextBlock("Error executing tool: " \o
                                  MessageOrString(result.failure))>>

(* C13: a request with an id that reaches a registered session gets        *)
(* exactly one response with that id on the session's stream: the          *)
(* initialize request when POST /message answers it, a request handed to   *)
(* the Server when its handler settles.                                    *)
C13_ExactlyOneResponse ==
    [][/\ (last'.op = "post" /\ load' = load + 1 /\ last'.wrote /\ last'.body.id # 0) =>
              stream'[last'.s] = Append(stream[last'.s], ResponseEvent(last'.body.id))
       /\ \A s \in Sessions, id \in RequestIds :
              (CallSettles(s, id) /\ Registered(s)) =>
                  stream'[s] = Append(stream[s], ResponseEvent(id))]_vars

(* C14: a message without an id (a notification) never puts a response on *)
(* a session's stream, whatever its method.  Id 0 stands for no id.        *)
C14_NoResponseToNotification ==
    \A s \in Sessions : \A i \in 1..Len(stream[s]) :
        stream[s][i] # ResponseEvent(0)

(* What a session's teardown may not touch in another session t: its map   *)
(* entry, its keep-alive timer and its stream.                             *)
SessionOf(t) ==
    <<MapHas(activeTransports, TransportSessionId(t)),
      IF MapHas(activeTransports, TransportSessionId(t))
      THEN activeTransports[TransportSessionId(t)] ELSE NoTransport,
      pingInterval[t], ctrl[t], stream[t], data[t], sessionId[t]>>

(* A write to connection s failed: the initialize response of POST         *)
(* /message, or a ping on a stream that is no longer readable.             *)
FailedWriteStep(s) ==
    \/ last'.op = "post" /\ load' = load + 1 /\ last'.wrote /\ last'.failed /\ last'.s = s
    \/ PingTick(s) /\ ~CanEnqueue(ctrl[s])

(* C19: a client abort, a transport error or a failed write on connection  *)
(* s leaves the map entry, the keep-alive timer and the stream state of    *)
(* every other connection as they were.                                    *)
C19_TeardownLeavesOthersAlone ==
    [][\A s \in Sessions :
          (TeardownStep(s) \/ FailedWriteStep(s)) =>
              \A t \in Sessions \ {s} : SessionOf(t)' = SessionOf(t)]_vars

(* Connection 1 has just been aborted while connection 2 is registered,    *)
(* with its timer armed and its stream readable.                           *)
C19_Witness ==
    /\ last.op = "abort"
    /\ last.s = 1
    /\ ~Registered(1)
    /\ sessionId[1] # Undefined
    /\ Registered(2)
    /\ pingInterval[2]
    /\ ctrl[2] = "readable"

(* The names of a catalogue, in its order. *)
CatalogueNames(c) == [i \in 1..Len(c) |-> c[i].name]

(* C15: list_tools returns the three tools github_analyze_codebase,        *)
(* github_check_resume, github_enhance_resume_with_project in this order,  *)
(* names pairwise distinct, each with an empty required list, whatever     *)
(* requests were handled before.                                           *)
C15_CatalogueFixed ==
    result.handler = "tools/list" =>
        /\ CatalogueNames(result.catalogue) =
               <<"github_analyze_codebase", "github_check_resume",
                 "github_enhance_resume_with_project">>
        /\ \A i, j \in 1..Len(result.catalogue) :
               i # j => result.catalogue[i].name # result.catalogue[j].name
        /\ \A i \in 1..Len(result.catalogue) : result.catalogue[i].required = <<>>

(* The catalogue was listed after a tool call that created a resume        *)
(* upstream.                                                               *)
C15_Witness ==
    /\ result.handler = "tools/list"
    /\ Len(result.catalogue) = 3
    /\ \E i \in 1..Len(calls) : calls[i].fn = "createSampleResume"

(* C16: when one of the three credentials is not set, the top-level code   *)
(* ends in process.exit(1) with the missing variable named in the log,     *)
(* and no transport was connected, no listener opened and no request       *)
(* handled.                                                                *)
C16_MissingCredentialExits ==
    (pc # "load" /\ env # AllEnv) =>
        /\ pc = "exit"
        /\ exitCode = 1
        /\ \E i \in 1..Len(EnvNames) :
               /\ EnvNames[i] \notin env
               /\ log = <<RequiredMessage(EnvNames[i])>>
        /\ started = {}
        /\ result = NoResult

(* The process has exited with status 1 because only GITHUB_USERNAME was   *)
(* not set.                                                                *)
C16_Witness ==
    /\ pc = "exit"
    /\ exitCode = 1
    /\ env = {"GITHUB_TOKEN", "OPENAI_API_KEY"}
    /\ log = <<RequiredMessage("GITHUB_USERNAME")>>

(* C17: a process started without arguments runs in stdio mode, a process  *)
(* started with the sse flag runs in HTTP mode, and a running process has  *)
(* started exactly one of the two modes.                                   *)
C17_ModeSelection ==
    pc = "run" =>
        /\ argv = NodeArgv => "stdio" \in started
        /\ Includes(argv, "sse") => "http" \in started
        /\ ("stdio" \in started) # ("http" \in started)

(* The object that the last tool call returned: the parsed JSON text of    *)
(* its text block.                                                         *)
ReturnedObject == result.content[1].json

(* C18: github_check_resume makes no upstream write; with no resume        *)
(* upstream it returns {"message": "No resume found", "exists": false,     *)
(* "resumeUrl": null}; with a resume upstream the resume it returns has no *)
(* _gistId.                                                                *)
C18_CheckResume ==
    CalledTool("github_check_resume") =>
        /\ \A i \in 1..Len(calls) : calls[i].fn \notin Writes
        /\ (result.failure = NoThrow /\ gist = "none") =>
               /\ ~result.isError
               /\ Len(result.content) = 1
               /\ ReturnedObject =
                      <<Field("message", "string", "No resume found"),
                        Field("exists", "boolean", "false"),
                        Field("resumeUrl", "null", "null")>>
        /\ (result.failure = NoThrow /\ gist # "none") =>
               /\ Len(result.content) = 1
               /\ \E i \in 1..Len(ReturnedObject) : ReturnedObject[i].key = "resume"
               /\ \A i \in 1..Len(ReturnedObject) :
                      ReturnedObject[i].key = "resume" =>
                          "_gistId" \notin ReturnedObject[i].keys

(* github_check_resume has returned while the resume upstream carries      *)
(* _gistId.                                                                *)
C18_Witness ==
    /\ CalledTool("github_check_resume")
    /\ result.failure = NoThrow
    /\ gist = "tagged"
    /\ calls = <<Call("getResumeFromGists", "")>>

(* C20: when the handler of a request settles after the client of its      *)
(* connection has disconnected and the abort listener has torn the stream  *)
(* down, the response is dropped: it reaches                               *)
(* neither the stream nor the shim's _data, the failed send ends in        *)
(* server.onerror, the process neither exits nor stops listening, and no   *)
(* other connection is touched.                                            *)
C20_LateResultDiscarded ==
    [][\A s \in Sessions, id \in RequestIds :
          (CallSettles(s, id) /\ aborted[s] /\ TornDown(ctrl[s])) =>
              /\ stream'[s] = stream[s]
              /\ data'[s] = data[s]
              /\ pc' = "run"
              /\ exitCode' = NotExited
              /\ started' = started
              /\ activeTransports' = activeTransports
              /\ \A t \in Sessions \ {s} : SessionOf(t)' = SessionOf(t)]_vars

(* The client of a registered session disconnected while a request was in  *)
(* flight, and the handler has settled since: the attempt to write the     *)
(* response was made on the torn-down stream.                              *)
C20_Witness ==
    \E s \in Sessions :
        /\ aborted[s]
        /\ sessionId[s] # Undefined
        /\ TornDown(ctrl[s])
        /\ inflight[s] = {}
        /\ Len(written[s]) > 0
        /\ written[s][Len(written[s])] = <<ResponseEvent(1), FALSE>>
        /\ \A i \in 1..Len(stream[s]) : stream[s][i] # ResponseEvent(1)

-----------------------------------------------------------------------------
(* Properties of the session bridge and of the handlers, continued *)

(* The endpoint event of connection s is on its stream. *)
EndpointEmitted(s) ==
    \E i \in 1..Len(stream[s]) : stream[s][i] = EndpointEvent(TransportSessionId(s))

(* C21: whenever the endpoint event that carries the session id of         *)
(* connection s is on its stream, the id was put into activeTransports     *)
(* before: it maps to the transport of s unless the abort listener has     *)
(* removed it since, and a POST /message to the advertised id of a session *)
(* that was not torn down is not answered 404.                             *)
C21_RegisteredBeforeEndpoint ==
    \A s \in Sessions :
        EndpointEmitted(s) =>
            /\ sessionId[s] = TransportSessionId(s)
            /\ ~aborted[s] =>
                   /\ Registered(s)
                   /\ activeTransports[TransportSessionId(s)] = s
                   /\ (last.op = "post" /\ last.q = TransportSessionId(s)) =>
                          last.status # 404

(* A client has posted a tools/call message to the id its endpoint event   *)
(* advertised and was answered 200.                                        *)
C21_Witness ==
    /\ EndpointEmitted(1)
    /\ ~aborted[1]
    /\ last.op = "post"
    /\ last.q = TransportSessionId(1)
    /\ last.body.method = "tools/call"
    /\ last.status = 200

(* C22: every tool call, whatever its outcome (one of the three tools      *)
(* succeeding, an unknown tool, an exception while it is handled), returns *)
(* a content list that holds exactly one text block, and isError is set    *)
(* exactly when the tool is unknown or something was thrown.               *)
C22_UniformResponseShape ==
    result.handler = "tools/call" =>
        /\ result.outcome = "returns"
        /\ Len(result.content) = 1
        /\ \A i \in 1..Len(result.content) : result.content[i].type = "text"
        /\ result.isError = (~ToolsSome(result.name) \/ result.failure # NoThrow)

(* The tools that take the optional directory input. *)
DirectoryTools == {ANALYZE_CODEBASE_TOOL.name, ENHANCE_RESUME_WITH_PROJECT_TOOL.name}

(* C23: when no collaborator fails, a call of github_analyze_codebase or   *)
(* github_enhance_resume_with_project succeeds whether it carries a        *)
(* directory, an empty arguments object or no arguments object; without a  *)
(* directory the analysis runs on the working directory, with one it runs  *)
(* on that directory.                                                      *)
C23_DirectoryOptional ==
    [][\A name \in DirectoryTools, args \in Arguments, e \in Rejections,
          er \in EnhancerResults :
          CallTool(name, args, 0, e, er) =>
              /\ result'.outcome = "returns"
              /\ ~result'.isError
              /\ \E i \in 1..Len(calls') :
                     calls'[i] = Call("analyze",
                                      IF args.directory # "" THEN args.directory ELSE Cwd)]_vars

(* C24: when the transport calls end() on the shim of connection s, the    *)
(* controller of the client's stream is closed, and the step that follows  *)
(* enqueues no chunk on that stream.                                       *)
C24_EndClosesStream ==
    [][\A s \in Sessions :
          /\ (last'.op = "end" /\ last'.s = s) => ctrl'[s] = "closed"
          /\ (last.op = "end" /\ last.s = s) => stream'[s] = stream[s]]_vars

(* C25: the process exits with status 0 only from the SIGINT listener, at  *)
(* the moment the awaited server.close() has resolved: the Server's        *)
(* transport is closed then, and so is the Express listener when one was   *)
(* started.                                                                *)
C25_CloseBeforeExit ==
    [][(exitCode' = 0 /\ exitCode # 0) =>
          /\ pc = "closing"
          /\ pc' = "exit"
          /\ "stdio" \notin started'
          /\ "http" \notin started']_vars

(* The process started with the sse flag has exited with status 0 after    *)
(* SIGINT: the Express listener was closed, the Hono proxy was not.        *)
C25_Witness ==
    /\ pc = "exit"
    /\ exitCode = 0
    /\ Includes(argv, "sse")
    /\ started = {"proxy"}

(* The call-tool handler turned the request down without entering a tool's *)
(* branch: the unknown-tool result or the fall-through result of the third *)
(* revision, the McpError of index.ts and of the first revision.           *)
RefusedTool ==
    \/ /\ result.outcome = "returns"
       /\ result.isError
       /\ result.content \in
              {<<TextBlock("Error: Unknown tool '" \o result.name \o "'")>>,
               <<TextBlock("Error: Tool '" \o result.name \o "' implementation not found")>>}
    \/ /\ result.outcome = "throws"
       /\ result.thrown = McpError("Unknown tool: " \o result.name)

(* C26: a tools/call request enters a tool's branch exactly when its name  *)
(* is in the catalogue that tools/list returns; github_hello_tool, which   *)
(* is not in the catalogue, is never executed.                             *)
C26_ExecutableIsCatalogue ==
    result.handler = "tools/call" => (~RefusedTool <=> ToolsSome(result.name))

(* The names the call-tool handler of the third revision has a branch for. *)
Branches ==
    {HelloTool, ANALYZE_CODEBASE_TOOL.name, CHECK_RESUME_TOOL.name,
     ENHANCE_RESUME_WITH_PROJECT_TOOL.name}

(* C27: every name in the registry has a branch in the call-tool handler,  *)
(* and no tools/call request ends in the fall-through result "Tool '<name>'*)
(* implementation not found".                                              *)
C27_FallThroughUnreachable ==
    /\ \A i \in 1..Len(tools) : tools[i].name \in Branches
    /\ result.handler = "tools/call" =>
           \A i \in 1..Len(result.content) :
               result.content[i] #
                   TextBlock("Error: Tool '" \o result.name \o "' implementation not found")

(* A tool of the registry was called and its branch returned its result.   *)
C27_Witness ==
    /\ CalledTool(ENHANCE_RESUME_WITH_PROJECT_TOOL.name)
    /\ result.outcome = "returns"
    /\ ~result.isError
    /\ calls # <<>>

(* The positions in cs of the calls of collaborator function fn, and of    *)
(* those that completed: every call is awaited before the next statement,  *)
(* so only the last call made can be the one that rejected.                *)
CallsOf(cs, fn) == {i \in 1..Len(cs) : cs[i].fn = fn}

CompletedCalls(cs, res, fn) ==
    {i \in CallsOf(cs, fn) : i < Len(cs) \/ res.failure = NoThrow}

(* A step in which the handler ran enhanceResumeWithProject. *)
EnhanceStep ==
    /\ pc = "run"
    /\ pc' = "run"
    /\ result'.handler = "tools/call"
    /\ result'.name = ENHANCE_RESUME_WITH_PROJECT_TOOL.name
    /\ calls' # <<>>

(* updateResume is called at most once, after getResumeFromGists, analyze  *)
(* and enhanceWithCurrentProject have completed in that order.             *)
UpdatedOnceAfterAll(cs, res) ==
    /\ Cardinality(CallsOf(cs, "updateResume")) <= 1
    /\ \A u \in CallsOf(cs, "updateResume") :
           \E f \in CompletedCalls(cs, res, "getResumeFromGists"),
              a \in CompletedCalls(cs, res, "analyze"),
              h \in CompletedCalls(cs, res, "enhanceWithCurrentProject") :
               f < a /\ a < h /\ h < u

(* createSampleResume is called before any analysis. *)
CreatedBeforeAnalysis(cs) ==
    \A c \in CallsOf(cs, "createSampleResume"), a \in CallsOf(cs, "analyze") : c < a

(* C28 as stated: in an enhance call the resume is updated at most once    *)
(* and only after fetch, analysis and enhancement succeeded in order;      *)
(* createSampleResume is called exactly when the fetch returned no resume, *)
(* and before the analysis.                                                *)
C28_EnhanceOrder ==
    [][EnhanceStep =>
          /\ UpdatedOnceAfterAll(calls', result')
          /\ CreatedBeforeAnalysis(calls')
          /\ (CallsOf(calls', "createSampleResume") # {}) <=>
                 (gist = "none" /\ CompletedCalls(calls', result', "getResumeFromGists") # {})]_vars

(* C28, amended: as above, but createSampleResume is called exactly when   *)
(* the fetch returned no resume and the getUserProfile call that precedes  *)
(* it succeeded.                                                           *)
C28_EnhanceOrderAfterProfile ==
    [][EnhanceStep =>
          /\ UpdatedOnceAfterAll(calls', result')
          /\ CreatedBeforeAnalysis(calls')
          /\ (CallsOf(calls', "createSampleResume") # {}) <=>
                 /\ gist = "none"
                 /\ CompletedCalls(calls', result', "getResumeFromGists") # {}
                 /\ CompletedCalls(calls', result', "getUserProfile") # {}]_vars

(* An enhance call found no resume upstream, created the sample resume and *)
(* went on to update it.                                                   *)
C28_Witness ==
    /\ CalledTool(ENHANCE_RESUME_WITH_PROJECT_TOOL.name)
    /\ result.failure = NoThrow
    /\ CallsOf(calls, "createSampleResume") # {}
    /\ CallsOf(calls, "updateResume") = {Len(calls)}

(* C29: an enhance call that ends in failure has written nothing upstream: *)
(* the resume upstream is what it was before the call, and no              *)
(* createSampleResume and no updateResume call has completed.              *)
C29_FailedEnhanceWritesNothing ==
    [][(EnhanceStep /\ result'.failure # NoThrow) =>
          /\ gist' = gist
          /\ \A w \in Writes : CompletedCalls(calls', result', w) = {}]_vars

(* C30: POST /message for a registered session.  An initialize message is  *)
(* answered by one write of a response with the message's id on the        *)
(* session's stream and is not handed to transport.handlePostMessage;      *)
(* every other message is handed to it once and the endpoint writes        *)
(* nothing itself.                                                         *)
C30_InitializeDirectOthersForwarded ==
    [][(/\ last'.op = "post"
        /\ load' = load + 1
        /\ last'.body.json = "object"
        /\ MapHas(activeTransports, last'.q)) =>
          LET t == activeTransports[last'.q]
          IN  IF last'.body.method = "initialize"
              THEN /\ stream'[t] = Append(stream[t], ResponseEvent(last'.body.id))
                   /\ Len(written'[t]) = Len(written[t]) + 1
                   /\ last'.to = NoTransport
                   /\ handled' = handled
              ELSE /\ last'.to = t
                   /\ handled' = [handled EXCEPT ![t] = @ \cup {last'.q}]
                   /\ ~last'.wrote
                   /\ written' = written
                   /\ data' = data]_vars

(* server.connect was rejected for connection s. *)
ConnectFailed(s) == phase[s] = "failed"

(* C31: when server.connect fails for a connection, the session is never   *)
(* in activeTransports, the handler puts no endpoint and no connected      *)
(* event on the stream, the stream is in the error state, and the          *)
(* keep-alive timer of the connection is eventually cleared.               *)
C31_ConnectFailure ==
    /\ [](\A s \in Sessions :
             ConnectFailed(s) =>
                 /\ sessionId[s] = Undefined
                 /\ ~Registered(s)
                 /\ \A k \in DOMAIN activeTransports : activeTransports[k] # s
                 /\ \A i \in 1..Len(stream[s]) :
                        stream[s][i] \notin {EndpointEvent(TransportSessionId(s)),
                                             ConnectedEvent}
                 /\ ctrl[s] = "errored")
    /\ \A s \in Sessions : ConnectFailed(s) ~> ~pingInterval[s]

(* The connection failed and was not aborted: the timer was cleared by its *)
(* own tick, whose enqueue threw on the errored stream.                    *)
C31_Witness ==
    /\ ConnectFailed(1)
    /\ ~aborted[1]
    /\ ctrl[1] = "errored"
    /\ ~pingInterval[1]

=============================================================================
